---- MODULE Spec2Model ----
(***************************************************************************)
(* Model of the dragonfly-p2p-webhook mutating admission webhook:          *)
(*   - the three injectors of internal/webhook/v1/injector                 *)
(*     (proxy_env.go, unix_socket.go, tools_initcontainer.go),             *)
(*   - the configuration store of injector/config.go,                      *)
(*   - the admission entry point PodCustomDefaulter.Default.               *)
(*                                                                         *)
(* A Go string that the code only copies or compares is a TLA+ string.  A  *)
(* path that filepath.Clean inspects is a sequence of one-character        *)
(* strings, turned into a string by Str where the code concatenates it.    *)
(***************************************************************************)
EXTENDS Integers, Sequences, FiniteSets, TLC

VARIABLES
    \* the admission object and the call of Default on it
    kind,       \* dynamic type of the admission object
    pod,        \* the Pod object being mutated (in place)
    pod0,       \* the Pod as it was handed in (history)
    ns,         \* outcome of kubeClient.Get for the pod's Namespace
    pc,         \* position of the admission call
    config,     \* the *InjectConf the injectors are called with
    idx,        \* index of the next injector in d.injectors
    err,        \* value returned by Default
    last,       \* the injector that ran last ("none" before the first)
    invoked,    \* injectors invoked by the current call, in order (history)
    calls,      \* number of Default calls started on this object
    returned,   \* the pod at each return of Default, and the config of that call (history)
    other,      \* a call of Default on another Pod object: its pod, lookup, position, config
    \* the configuration store
    file,       \* what is at configPath (<dir>/config.yaml)
    cmConfig,   \* ConfigManager.config
    cmFrom,     \* the file content cmConfig was loaded from (history)
    mu,         \* ConfigManager.mu: the writer holding it, the readers holding it
    rpc,        \* position of the goroutine running ConfigManager.Start
    loaded,     \* result of the last LoadInjectConf (reload's local config)
    loadedFrom, \* the file content that load read (history)
    cancelled,  \* whether Start's context is done
    startRet,   \* value returned by Start ("running" until it returns)
    gpc,        \* position of a caller of GetConfig
    got,        \* copiedConf of that caller
    held        \* the objects behind the pointers GetConfig returned and callers kept

admissionVars == <<kind, pod, pod0, other, ns, pc, idx, err, invoked, calls, returned>>
injectVars == <<config, last>>
storeVars == <<file, cmConfig, cmFrom>>
reloadVars == <<mu, rpc, loaded, loadedFrom, cancelled, startRet, gpc, got, held>>

vars == <<admissionVars, injectVars, storeVars, reloadVars>>

-----------------------------------------------------------------------------
(* Bounds of the model *)

MaxContainers == 2
MaxCalls == 2
MaxHeld == 2

-----------------------------------------------------------------------------
(* Constants of injector/config.go *)

NamespaceInjectLabelName == "dragonflyoss-injection"
NamespaceInjectLabelValue == "enabled"
PodInjectAnnotationName == "dragonfly.io/inject"
PodInjectAnnotationValue == "true"
NodeNameEnvName == "NODE_NAME"
ProxyPortEnvName == "DRAGONFLY_PROXY_PORT"
ProxyPortEnvValue == 4001
ProxyEnvName == "DRAGONFLY_INJECT_PROXY"
DfdaemonUnixSockVolumeName == "dfdaemon-unix-sock"
DfdaemonUnixSockPath == "/var/run/dragonfly/dfdaemon.sock"
CliToolsImageAnnotation == "dragonfly.io/cli-tools-image"
CliToolsImage == "dragonflyoss/cli-tools:latest"
CliToolsInitContainerName == "d7y-cli-tools"
CliToolsVolumeName == CliToolsInitContainerName \o "-volume"
CliToolsDirPath ==
    <<"/", "d", "r", "a", "g", "o", "n", "f", "l", "y", "-", "t", "o", "o", "l", "s">>
CliToolsPathEnvName == "DRAGONFLY_TOOLS_PATH"

-----------------------------------------------------------------------------
(* Strings *)

\* A sequence of one-character strings as one string.
RECURSIVE Str(_)
Str(cs) == IF cs = <<>> THEN "" ELSE Head(cs) \o Str(Tail(cs))

Digit(d) ==
    CASE d = 0 -> "0" [] d = 1 -> "1" [] d = 2 -> "2" [] d = 3 -> "3"
      [] d = 4 -> "4" [] d = 5 -> "5" [] d = 6 -> "6" [] d = 7 -> "7"
      [] d = 8 -> "8" [] d = 9 -> "9"

RECURSIVE Digits(_)
Digits(n) == IF n < 10 THEN Digit(n) ELSE Digits(n \div 10) \o Digit(n % 10)

\* strconv.Itoa: the decimal string of an int.
Itoa(n) == IF n < 0 THEN "-" \o Digits(0 - n) ELSE Digits(n)

\* strings.Split(path, "/") on a character sequence: the components between
\* separators, empty ones included.
RECURSIVE Components(_, _)
Components(cs, cur) ==
    IF cs = <<>> THEN <<cur>>
    ELSE IF Head(cs) = "/" THEN <<cur>> \o Components(Tail(cs), <<>>)
    ELSE Components(Tail(cs), Append(cur, Head(cs)))

\* The component stack filepath.Clean builds: "" and "." are dropped, ".."
\* removes the last kept real component, is dropped at the root and is kept
\* in a relative path that has nothing left to remove.
RECURSIVE CleanStack(_, _, _)
CleanStack(comps, out, rooted) ==
    IF comps = <<>> THEN out
    ELSE LET c == Head(comps)
             rest == Tail(comps)
         IN  IF c = <<>> \/ c = <<".">> THEN CleanStack(rest, out, rooted)
             ELSE IF c = <<".", ".">> THEN
                 IF out # <<>> /\ out[Len(out)] # <<".", ".">>
                 THEN CleanStack(rest, SubSeq(out, 1, Len(out) - 1), rooted)
                 ELSE IF rooted THEN CleanStack(rest, out, rooted)
                 ELSE CleanStack(rest, Append(out, c), rooted)
             ELSE CleanStack(rest, Append(out, c), rooted)

RECURSIVE JoinPath(_)
JoinPath(comps) ==
    IF comps = <<>> THEN <<>>
    ELSE IF Len(comps) = 1 THEN comps[1]
    ELSE comps[1] \o <<"/">> \o JoinPath(Tail(comps))

\* The path without one trailing separator, as strings.TrimSuffix(path, "/") gives it.
Clean_trimsuffix(path) ==
    IF path # <<>> /\ path[Len(path)] = "/" THEN SubSeq(path, 1, Len(path) - 1) ELSE path

\* filepath.Clean (Unix): the shortest equivalent path, no trailing separator
\* except for the root, "." for the empty path.
Clean(path) ==
    IF path = <<>> THEN <<".">>
    ELSE LET rooted == path[1] = "/"
             body == JoinPath(CleanStack(Components(path, <<>>), <<>>, rooted))
         IN  IF rooted THEN <<"/">> \o body
             ELSE IF body = <<>> THEN <<".">> ELSE body

-----------------------------------------------------------------------------
(* Kubernetes objects, reduced to the fields the webhook reads or writes *)

EnvVar(n, v) == [name |-> n, value |-> v, fieldPath |-> ""]
EnvVarFieldRef(n, p) == [name |-> n, value |-> "", fieldPath |-> p]
VolumeMount(n, p) == [name |-> n, mountPath |-> p]
HostPathVolume(n, p, t) == [name |-> n, source |-> "HostPath", path |-> p, type |-> t]
EmptyDirVolume(n) == [name |-> n, source |-> "EmptyDir", path |-> "", type |-> ""]
Container(n, img, policy, cmd, env, mounts) ==
    [name |-> n, image |-> img, imagePullPolicy |-> policy, command |-> cmd,
     env |-> env, volumeMounts |-> mounts]

\* A Go map[string]string: nil or a finite function.
NilMap == [isNil |-> TRUE, m |-> <<>>]
Map(f) == [isNil |-> FALSE, m |-> f]
\* A lookup that never finds its key.
HasKey_never(mp, k) == FALSE

HasKey(mp, k) == k \in DOMAIN mp.m
MapLen(mp) == Cardinality(DOMAIN mp.m)

HasName(s, n) == \E i \in DOMAIN s : s[i].name = n

-----------------------------------------------------------------------------
(* injector/config.go: InjectConf *)

InjectConf(enable, port, image, dir) ==
    [Enable |-> enable, ProxyPort |-> port, CliToolsImage |-> image,
     CliToolsDirPath |-> dir]

NewDefaultInjectConf ==
    InjectConf(TRUE, ProxyPortEnvValue, CliToolsImage, CliToolsDirPath)

\* What os.ReadFile and yaml.Unmarshal make of configPath: no file, a file
\* that cannot be read, bytes that do not unmarshal into InjectConf (bad
\* syntax, a value of the wrong type), or a document with some of the keys.
FileMissing == [state |-> "missing", keys |-> <<>>]
FileUnreadable == [state |-> "unreadable", keys |-> <<>>]
FileMalformed == [state |-> "malformed", keys |-> <<>>]
FileWith(keys) == [state |-> "ok", keys |-> keys]

FileHas(f, k) == k \in DOMAIN f.keys

\* LoadInjectConfFromFile unmarshalling into the defaults, which fill the
\* fields of the keys the document lacks.
LoadInjectConfFromFile_merge(f) ==
    IF f.state # "ok" THEN [err |-> f.state, conf |-> InjectConf(FALSE, 0, "", <<>>)]
    ELSE [err |-> "nil",
          conf |-> InjectConf(
              IF FileHas(f, "enable") THEN f.keys.enable ELSE NewDefaultInjectConf.Enable,
              IF FileHas(f, "proxy_port") THEN f.keys.proxy_port
                                          ELSE NewDefaultInjectConf.ProxyPort,
              IF FileHas(f, "cli_tools_image") THEN f.keys.cli_tools_image
                                               ELSE NewDefaultInjectConf.CliToolsImage,
              IF FileHas(f, "cli_tools_dir_path") THEN f.keys.cli_tools_dir_path
                                                  ELSE NewDefaultInjectConf.CliToolsDirPath)]

\* A key the document lacks leaves the field of &InjectConf{} at its zero value.
LoadInjectConfFromFile(f) ==
    IF f.state # "ok" THEN [err |-> f.state, conf |-> InjectConf(FALSE, 0, "", <<>>)]
    ELSE [err |-> "nil",
          conf |-> InjectConf(
              IF FileHas(f, "enable") THEN f.keys.enable ELSE FALSE,
              IF FileHas(f, "proxy_port") THEN f.keys.proxy_port ELSE 0,
              IF FileHas(f, "cli_tools_image") THEN f.keys.cli_tools_image ELSE "",
              IF FileHas(f, "cli_tools_dir_path") THEN f.keys.cli_tools_dir_path ELSE <<>>)]

\* LoadInjectConf handing on the empty struct of a failed load.
LoadInjectConf_zero(f) == LoadInjectConfFromFile(f).conf

LoadInjectConf(f) ==
    LET r == LoadInjectConfFromFile(f)
    IN  IF r.err # "nil" THEN NewDefaultInjectConf ELSE r.conf

-----------------------------------------------------------------------------
(* injector/proxy_env.go *)

\* envsFromConfig taking the port from the constant instead of the configuration.
envsFromConfig_constport(c) ==
    << EnvVarFieldRef(NodeNameEnvName, "spec.nodeName"),
       EnvVar(ProxyPortEnvName, Itoa(ProxyPortEnvValue)),
       EnvVar(ProxyEnvName,
              "http://$(" \o NodeNameEnvName \o "):$(" \o ProxyPortEnvName \o ")") >>

\* envsFromConfig listing the proxy URL first.
envsFromConfig_proxyfirst(c) ==
    << EnvVar(ProxyEnvName,
              "http://$(" \o NodeNameEnvName \o "):$(" \o ProxyPortEnvName \o ")"),
       EnvVarFieldRef(NodeNameEnvName, "spec.nodeName"),
       EnvVar(ProxyPortEnvName, Itoa(c.ProxyPort)) >>

envsFromConfig(c) ==
    << EnvVarFieldRef(NodeNameEnvName, "spec.nodeName"),
       EnvVar(ProxyPortEnvName, Itoa(c.ProxyPort)),
       EnvVar(ProxyEnvName,
              "http://$(" \o NodeNameEnvName \o "):$(" \o ProxyPortEnvName \o ")") >>

\* injectContainer with the existence check left out.
RECURSIVE injectContainer_nocheck(_, _)
injectContainer_nocheck(c, envs) ==
    IF envs = <<>> THEN c
    ELSE injectContainer_nocheck([c EXCEPT !.env = Append(@, Head(envs))], Tail(envs))

\* injectContainer putting a missing variable in front of the list.
RECURSIVE injectContainer_prepend(_, _)
injectContainer_prepend(c, envs) ==
    IF envs = <<>> THEN c
    ELSE LET e == Head(envs)
             exsit == \E i \in DOMAIN c.env : e.name = c.env[i].name
         IN  injectContainer_prepend(
                 IF exsit THEN c ELSE [c EXCEPT !.env = <<e>> \o @], Tail(envs))

\* injectContainer taking a variable for present only when an entry has its
\* name and its value.
RECURSIVE injectContainer_byvalue(_, _)
injectContainer_byvalue(c, envs) ==
    IF envs = <<>> THEN c
    ELSE LET e == Head(envs)
             exsit == \E i \in DOMAIN c.env : e = c.env[i]
         IN  injectContainer_byvalue(
                 IF exsit THEN c ELSE [c EXCEPT !.env = Append(@, e)], Tail(envs))

\* for each e of envs in order: append e unless c.Env has an entry of that name.
RECURSIVE injectContainer(_, _)
injectContainer(c, envs) ==
    IF envs = <<>> THEN c
    ELSE LET e == Head(envs)
             exsit == \E i \in DOMAIN c.env : e.name = c.env[i].name
         IN  injectContainer(
                 IF exsit THEN c ELSE [c EXCEPT !.env = Append(@, e)], Tail(envs))

\* Inject going through the init containers as well.
ProxyEnvInjector_Inject_init(p, c) ==
    LET envs == envsFromConfig(c)
    IN  [p EXCEPT !.containers =
            [i \in DOMAIN p.containers |-> injectContainer(p.containers[i], envs)],
                  !.initContainers =
            [i \in DOMAIN p.initContainers |-> injectContainer(p.initContainers[i], envs)]]

ProxyEnvInjector_Inject(p, c) ==
    LET envs == envsFromConfig(c)
    IN  [p EXCEPT !.containers =
            [i \in DOMAIN p.containers |-> injectContainer(p.containers[i], envs)]]

-----------------------------------------------------------------------------
(* injector/unix_socket.go *)

\* InjectContainer appending the mount whether or not it is there.
UnixSocketInjector_InjectContainer_always(c) ==
    [c EXCEPT !.volumeMounts =
        Append(@, VolumeMount(DfdaemonUnixSockVolumeName, DfdaemonUnixSockPath))]

UnixSocketInjector_InjectContainer(c) ==
    LET exsit == \E i \in DOMAIN c.volumeMounts :
                    c.volumeMounts[i].name = DfdaemonUnixSockVolumeName
    IN  IF exsit THEN c
        ELSE [c EXCEPT !.volumeMounts =
                Append(@, VolumeMount(DfdaemonUnixSockVolumeName, DfdaemonUnixSockPath))]

\* Inject looking for a volume that equals the socket volume in name and source.
UnixSocketInjector_Inject_bysource(p, c) ==
    LET v == HostPathVolume(DfdaemonUnixSockVolumeName, DfdaemonUnixSockPath, "Socket")
        volumeExsit == \E i \in DOMAIN p.volumes : p.volumes[i] = v
        vols == IF volumeExsit THEN p.volumes ELSE Append(p.volumes, v)
    IN  [p EXCEPT !.volumes = vols,
                  !.containers = [i \in DOMAIN p.containers |->
                                    UnixSocketInjector_InjectContainer(p.containers[i])]]

\* Inject assigning the socket volume to pod.Spec.Volumes instead of appending it.
UnixSocketInjector_Inject_replace(p, c) ==
    LET volumeExsit == \E i \in DOMAIN p.volumes :
                          p.volumes[i].name = DfdaemonUnixSockVolumeName
        vols == IF volumeExsit THEN p.volumes
                ELSE <<HostPathVolume(DfdaemonUnixSockVolumeName,
                                      DfdaemonUnixSockPath, "Socket")>>
    IN  [p EXCEPT !.volumes = vols,
                  !.containers = [i \in DOMAIN p.containers |->
                                    UnixSocketInjector_InjectContainer(p.containers[i])]]

UnixSocketInjector_Inject(p, c) ==
    LET volumeExsit == \E i \in DOMAIN p.volumes :
                          p.volumes[i].name = DfdaemonUnixSockVolumeName
        vols == IF volumeExsit THEN p.volumes
                ELSE Append(p.volumes,
                            HostPathVolume(DfdaemonUnixSockVolumeName,
                                           DfdaemonUnixSockPath, "Socket"))
    IN  [p EXCEPT !.volumes = vols,
                  !.containers = [i \in DOMAIN p.containers |->
                                    UnixSocketInjector_InjectContainer(p.containers[i])]]

-----------------------------------------------------------------------------
(* injector/tools_initcontainer.go *)

\* CheckInitContainerIsExist searching the main containers.
CheckInitContainerIsExist_containers(p) == HasName(p.containers, CliToolsInitContainerName)

CheckInitContainerIsExist(p) == HasName(p.initContainers, CliToolsInitContainerName)

CheckVolumeIsExist(p) == HasName(p.volumes, CliToolsVolumeName)

CheckVolumeMountIsExist(c) == HasName(c.volumeMounts, CliToolsVolumeName)

CheckEnvIsExist(c) == HasName(c.env, CliToolsPathEnvName)

\* The loop body deciding the mount of every container by the first container.
ToolsInjectContainer_first(cs, i, mountPath) ==
    LET c == cs[i]
        withMount ==
            IF ~CheckVolumeMountIsExist(cs[1])
            THEN [c EXCEPT !.volumeMounts =
                    Append(@, VolumeMount(CliToolsVolumeName, mountPath))]
            ELSE c
    IN  IF ~CheckEnvIsExist(c)
        THEN [withMount EXCEPT !.env = Append(@, EnvVar(CliToolsPathEnvName, mountPath))]
        ELSE withMount

\* The body of Inject's loop over pod.Spec.Containers, for container i.
ToolsInjectContainer(cs, i, mountPath) ==
    LET c == cs[i]
        withMount ==
            IF ~CheckVolumeMountIsExist(c)
            THEN [c EXCEPT !.volumeMounts =
                    Append(@, VolumeMount(CliToolsVolumeName, mountPath))]
            ELSE c
    IN  IF ~CheckEnvIsExist(c)
        THEN [withMount EXCEPT !.env = Append(@, EnvVar(CliToolsPathEnvName, mountPath))]
        ELSE withMount

ToolsInitcontainerInjector_Inject(p, c) ==
    LET cliToolsVolumeMountPath == Str(Clean(c.CliToolsDirPath)) \o "-mount"
        initContainerCmd ==
            <<"cp", "-rf", Str(c.CliToolsDirPath) \o "/.", cliToolsVolumeMountPath \o "/">>
        initContainerImage ==
            IF ~p.annotations.isNil /\ HasKey(p.annotations, CliToolsImageAnnotation)
            THEN p.annotations.m[CliToolsImageAnnotation]
            ELSE c.CliToolsImage
        toolContainer ==
            Container(CliToolsInitContainerName, initContainerImage, "IfNotPresent",
                      initContainerCmd, <<>>,
                      <<VolumeMount(CliToolsVolumeName, cliToolsVolumeMountPath)>>)
        inits == IF ~CheckInitContainerIsExist(p)
                 THEN Append(p.initContainers, toolContainer)
                 ELSE p.initContainers
        vols == IF ~CheckVolumeIsExist(p)
                THEN Append(p.volumes, EmptyDirVolume(CliToolsVolumeName))
                ELSE p.volumes
    IN  [p EXCEPT !.initContainers = inits,
                  !.volumes = vols,
                  !.containers = [i \in DOMAIN p.containers |->
                        ToolsInjectContainer(p.containers, i, cliToolsVolumeMountPath)]]

-----------------------------------------------------------------------------
(* Input pods and configurations *)

SeqsUpTo(S, n) == UNION {[1..k -> S] : k \in 0..n}

\* No two entries of list s have the same name.
NoDupNames(s) == \A i, j \in DOMAIN s : s[i].name = s[j].name => i = j

UserEnv == EnvVar("FOO", "bar")
UserMount == VolumeMount("data", "/data")
UserVolume == EmptyDirVolume("data")

\* Env lists of an incoming container: none, or unrelated entries beside an
\* entry that already carries a name the injectors use, with content of the
\* user's own.
EnvLists ==
    { <<>>,
      <<EnvVar(NodeNameEnvName, "my-node"), UserEnv>>,
      <<UserEnv, EnvVar(CliToolsPathEnvName, "/opt/tools")>> }

MountLists ==
    { <<>>,
      <<UserMount, VolumeMount(DfdaemonUnixSockVolumeName, "/run/df.sock")>>,
      <<VolumeMount(CliToolsVolumeName, "/opt/tools"), UserMount>> }

\* The last list names one volume twice.
VolumeLists ==
    { <<>>,
      <<UserVolume, UserVolume>>,
      <<UserVolume, EmptyDirVolume(DfdaemonUnixSockVolumeName)>>,
      <<HostPathVolume(CliToolsVolumeName, "/opt/tools", "Directory"), UserVolume>> }

InitContainerLists ==
    { <<>>,
      <<Container("setup", "busybox", "", <<"true">>, <<>>, <<>>)>>,
      <<Container(CliToolsInitContainerName, "my/tools:1", "Always", <<"sh">>,
                  <<UserEnv>>, <<>>)>> }

ContainerPool ==
    { Container("app", "nginx", "", <<>>, e, m) : e \in EnvLists, m \in MountLists }

MakePod(ann, cs, ics, vs) ==
    [name |-> "demo", namespace |-> "default",
     labels |-> Map([k \in {"app"} |-> "demo"]),
     annotations |-> ann, containers |-> cs, initContainers |-> ics, volumes |-> vs]

\* Annotation maps the image resolution tells apart.
ImageAnnotations ==
    { NilMap,
      Map([k \in {PodInjectAnnotationName} |-> "true"]),
      Map([k \in {CliToolsImageAnnotation} |-> "custom/image:tag"]) }

InjectorPods ==
    { MakePod(a, cs, ics, vs) :
        a \in ImageAnnotations, cs \in SeqsUpTo(ContainerPool, MaxContainers),
        ics \in InitContainerLists, vs \in VolumeLists }

\* A configuration as a file with every key set may hold it; its tools
\* directory is written with a trailing separator.
CustomConf == InjectConf(FALSE, 8001, "test/cli-tools:v1.0.0", <<"/", "t", "/">>)

InjectorConfs == {NewDefaultInjectConf, CustomConf}

-----------------------------------------------------------------------------
(* injector/config.go: ConfigManager *)

\* Config files: test/cli-tools with every key set, and a document that sets
\* proxy_port alone.
FullFile ==
    FileWith([enable |-> FALSE, proxy_port |-> 8001,
              cli_tools_image |-> "test/cli-tools:v1.0.0",
              cli_tools_dir_path |-> <<"/", "t", "/">>])
PartialFile == FileWith([proxy_port |-> 1234])

Files == {FileMissing, FileUnreadable, FileMalformed, FullFile, PartialFile}

MuFree == [writer |-> FALSE, readers |-> 0]

\* NewConfigManager(dir) over a directory whose config.yaml is f; Start has
\* been handed to the manager and sits in its select.
NewConfigManager(f) ==
    /\ file = f
    /\ cmConfig = LoadInjectConf(f)
    /\ cmFrom = f
    /\ mu = MuFree
    /\ loaded = LoadInjectConf(f)
    /\ loadedFrom = f
    /\ rpc = "select"
    /\ cancelled = FALSE
    /\ startRet = "running"
    /\ gpc = "idle"
    /\ got = <<>>
    /\ held = <<>>

\* GetConfig: cm.mu.RLock().  A reader waits while a writer holds the mutex
\* or has called Lock and is waiting for it.
GetConfig_RLock ==
    /\ gpc = "idle"
    /\ ~mu.writer /\ rpc # "waiting"
    /\ mu' = [mu EXCEPT !.readers = @ + 1]
    /\ gpc' = "rlocked"
    /\ UNCHANGED <<rpc, loaded, loadedFrom, cancelled, startRet, got, held>>
    /\ UNCHANGED <<admissionVars, injectVars, storeVars>>

\* copiedConf := *cm.config
GetConfig_Copy ==
    /\ gpc = "rlocked"
    /\ got' = <<cmConfig>>
    /\ gpc' = "copied"
    /\ UNCHANGED <<mu, rpc, loaded, loadedFrom, cancelled, startRet, held>>
    /\ UNCHANGED <<admissionVars, injectVars, storeVars>>

\* GetConfig handing out the manager's own pointer.
GetConfig_result_shared(c) == [loc |-> "cm.config", val |-> c]

\* What the pointer GetConfig returns refers to: its local copiedConf, an
\* object of its own with the copied fields.
GetConfig_result(c) == [loc |-> "copiedConf", val |-> c]

\* return &copiedConf, with the deferred cm.mu.RUnlock().  The caller keeps
\* the pointer (keep, while it holds fewer than MaxHeld) or drops it after use.
GetConfig_ReturnTo(keep) ==
    /\ gpc = "copied"
    /\ mu' = [mu EXCEPT !.readers = @ - 1]
    /\ gpc' = "idle"
    /\ held' = IF keep /\ Len(held) < MaxHeld
               THEN Append(held, GetConfig_result(got[1]))
               ELSE held
    /\ UNCHANGED <<rpc, loaded, loadedFrom, cancelled, startRet, got>>
    /\ UNCHANGED <<admissionVars, injectVars, storeVars>>

GetConfig_Return == GetConfig_ReturnTo(FALSE)

GetConfig_Keep == GetConfig_ReturnTo(TRUE)

\* The fields of InjectConf, and an assignment to field f through a pointer
\* to c: a value the field did not have.
InjectConfFields == {"Enable", "ProxyPort", "CliToolsImage", "CliToolsDirPath"}

Store(c, f) ==
    CASE f = "Enable" -> [c EXCEPT !.Enable = ~@]
      [] f = "ProxyPort" -> [c EXCEPT !.ProxyPort = 0 - 1]
      [] f = "CliToolsImage" -> [c EXCEPT !.CliToolsImage = "mine"]
      [] f = "CliToolsDirPath" -> [c EXCEPT !.CliToolsDirPath = <<"/", "x">>]

\* A caller assigns to a field through a pointer it got from GetConfig.  The
\* object the pointer refers to changes, and with it what every pointer to
\* the same object shows.
Caller_Write ==
    /\ \E i \in DOMAIN held, f \in InjectConfFields :
          LET v == Store(held[i].val, f)
          IN  /\ v # held[i].val
              /\ IF held[i].loc = "cm.config"
                 THEN /\ cmConfig' = v
                      /\ held' = [j \in DOMAIN held |->
                                    IF held[j].loc = "cm.config"
                                    THEN [held[j] EXCEPT !.val = v] ELSE held[j]]
                 ELSE /\ held' = [held EXCEPT ![i].val = v]
                      /\ UNCHANGED cmConfig
    /\ UNCHANGED <<file, cmFrom>>
    /\ UNCHANGED <<mu, rpc, loaded, loadedFrom, cancelled, startRet, gpc, got>>
    /\ UNCHANGED <<admissionVars, injectVars>>

\* reload taking the mutex before it loads the file.
Start_Tick_locked ==
    /\ rpc = "select"
    /\ mu.readers = 0 /\ ~mu.writer
    /\ mu' = [mu EXCEPT !.writer = TRUE]
    /\ loaded' = LoadInjectConf(file)
    /\ loadedFrom' = file
    /\ rpc' = "locked"
    /\ UNCHANGED <<cancelled, startRet, gpc, got, held>>
    /\ UNCHANGED <<admissionVars, injectVars, storeVars>>

\* Start: case <-ticker.C, then reload's config := LoadInjectConf(cm.configPath).
\* A select with both cases ready may take either, so a tick can still be
\* served after the context is done.
Start_Tick ==
    /\ rpc = "select"
    /\ loaded' = LoadInjectConf(file)
    /\ loadedFrom' = file
    /\ rpc' = "loaded"
    /\ UNCHANGED <<mu, cancelled, startRet, gpc, got, held>>
    /\ UNCHANGED <<admissionVars, injectVars, storeVars>>

\* reload: cm.mu.Lock() is called.
reload_Lock ==
    /\ rpc = "loaded"
    /\ rpc' = "waiting"
    /\ UNCHANGED <<mu, loaded, loadedFrom, cancelled, startRet, gpc, got, held>>
    /\ UNCHANGED <<admissionVars, injectVars, storeVars>>

\* reload: cm.mu.Lock() returns, once the readers have left.
reload_Locked ==
    /\ rpc = "waiting"
    /\ mu.readers = 0 /\ ~mu.writer
    /\ mu' = [mu EXCEPT !.writer = TRUE]
    /\ rpc' = "locked"
    /\ UNCHANGED <<loaded, loadedFrom, cancelled, startRet, gpc, got, held>>
    /\ UNCHANGED <<admissionVars, injectVars, storeVars>>

\* reload writing two fields of the stored object and leaving the others.
reload_Swap_fieldwise ==
    /\ rpc = "locked"
    /\ cmConfig' = [cmConfig EXCEPT !.Enable = loaded.Enable,
                                    !.ProxyPort = loaded.ProxyPort]
    /\ cmFrom' = loadedFrom
    /\ mu' = [mu EXCEPT !.writer = FALSE]
    /\ rpc' = "select"
    /\ UNCHANGED <<file, loaded, loadedFrom, cancelled, startRet, gpc, got, held>>
    /\ UNCHANGED <<admissionVars, injectVars>>

\* reload unlocking without the assignment to cm.config.
reload_Swap_keep ==
    /\ rpc = "locked"
    /\ mu' = [mu EXCEPT !.writer = FALSE]
    /\ rpc' = "select"
    /\ UNCHANGED <<file, cmConfig, cmFrom>>
    /\ UNCHANGED <<loaded, loadedFrom, cancelled, startRet, gpc, got, held>>
    /\ UNCHANGED <<admissionVars, injectVars>>

\* reload keeping the stored configuration when the load fell back.
reload_Swap_keepgood ==
    /\ rpc = "locked"
    /\ cmConfig' = IF loadedFrom.state = "ok" THEN loaded ELSE cmConfig
    /\ cmFrom' = loadedFrom
    /\ mu' = [mu EXCEPT !.writer = FALSE]
    /\ rpc' = "select"
    /\ UNCHANGED <<file, loaded, loadedFrom, cancelled, startRet, gpc, got, held>>
    /\ UNCHANGED <<admissionVars, injectVars>>

\* reload: cm.config = config, and the deferred cm.mu.Unlock(); back to the select.
reload_Swap ==
    /\ rpc = "locked"
    /\ cmConfig' = loaded
    /\ cmFrom' = loadedFrom
    /\ mu' = [mu EXCEPT !.writer = FALSE]
    /\ rpc' = "select"
    /\ UNCHANGED <<file, loaded, loadedFrom, cancelled, startRet, gpc, got, held>>
    /\ UNCHANGED <<admissionVars, injectVars>>

\* Start returning an error after a reload that could not read or parse the file.
Start_Done_err ==
    /\ rpc = "select"
    /\ cancelled
    /\ rpc' = "returned"
    /\ startRet' = IF LoadInjectConfFromFile(loadedFrom).err # "nil"
                   THEN "reload failed" ELSE "nil"
    /\ UNCHANGED <<mu, loaded, loadedFrom, cancelled, gpc, got, held>>
    /\ UNCHANGED <<admissionVars, injectVars, storeVars>>

\* Start: case <-ctx.Done(): return nil
Start_Done ==
    /\ rpc = "select"
    /\ cancelled
    /\ rpc' = "returned"
    /\ startRet' = "nil"
    /\ UNCHANGED <<mu, loaded, loadedFrom, cancelled, gpc, got, held>>
    /\ UNCHANGED <<admissionVars, injectVars, storeVars>>

\* The manager's context is cancelled.
Cancel ==
    /\ ~cancelled
    /\ cancelled' = TRUE
    /\ UNCHANGED <<mu, rpc, loaded, loadedFrom, startRet, gpc, got, held>>
    /\ UNCHANGED <<admissionVars, injectVars, storeVars>>

\* The mounted config file is replaced, removed or made unreadable: it
\* becomes another one of fs.
WriteFileFrom(fs) ==
    /\ \E f \in fs \ {file} : file' = f
    /\ UNCHANGED <<cmConfig, cmFrom>>
    /\ UNCHANGED <<admissionVars, injectVars, reloadVars>>

WriteFile == WriteFileFrom(Files)

-----------------------------------------------------------------------------
(* Parts of the system a specification leaves out stay as follows *)

EmptyPod ==
    [name |-> "", namespace |-> "", labels |-> NilMap,
     annotations |-> NilMap, containers |-> <<>>, initContainers |-> <<>>,
     volumes |-> <<>>]

NsFound(labels) == [err |-> "nil", labels |-> labels]

\* No second call.
NoOtherCall ==
    [pc |-> "none", pod0 |-> EmptyPod, pod |-> EmptyPod, ns |-> NsFound(NilMap),
     idx |-> 1, config |-> NewDefaultInjectConf]

NoAdmission ==
    /\ kind = "Pod" /\ ns = NsFound(NilMap)
    /\ other = NoOtherCall
    /\ pc = "idle" /\ idx = 1 /\ err = "pending"
    /\ invoked = <<>> /\ calls = 0 /\ returned = <<>>

NoInjection ==
    /\ pod = EmptyPod /\ pod0 = EmptyPod
    /\ config = NewDefaultInjectConf /\ last = "none"

StoreAtRest == NewConfigManager(FileMissing)

-----------------------------------------------------------------------------
(* The configuration store: reloads, readers and changes of the file *)

ConfigInit ==
    /\ \E f \in Files : NewConfigManager(f)
    /\ NoAdmission
    /\ NoInjection

ConfigNext ==
    \/ GetConfig_RLock \/ GetConfig_Copy \/ GetConfig_Return
    \/ Start_Tick \/ reload_Lock \/ reload_Locked \/ reload_Swap
    \/ Start_Done \/ Cancel \/ WriteFile

ConfigSpec == ConfigInit /\ [][ConfigNext]_vars

\* The store with its scheduling.  A goroutine that can take its next step
\* takes it: a reader inside GetConfig copies and returns, reload calls Lock,
\* gets the mutex once the readers have left (new readers queue behind a
\* waiting writer) and stores.  The ticker fires every 15 seconds while Start
\* sits in its select, and a select that finds ctx.Done() ready again and
\* again takes that case in the end.
ConfigLive ==
    /\ ConfigInit /\ [][ConfigNext]_vars
    /\ WF_vars(GetConfig_Copy) /\ WF_vars(GetConfig_Return)
    /\ WF_vars(Start_Tick)
    /\ WF_vars(reload_Lock) /\ WF_vars(reload_Locked) /\ WF_vars(reload_Swap)
    /\ SF_vars(Start_Done)

-----------------------------------------------------------------------------
(* The injectors applied one at a time, in any order, any number of times *)

\* The injectors registered in the opposite order.
Injectors_reversed == <<"cli-tools", "unix-socket", "proxy-env">>

\* d.injectors, as NewPodCustomDefaulter fills it.
Injectors == <<"proxy-env", "unix-socket", "cli-tools">>

\* injector.Inject(pod, config) of the injector called name.
Inject(name, p, c) ==
    CASE name = "proxy-env" -> ProxyEnvInjector_Inject(p, c)
      [] name = "unix-socket" -> UnixSocketInjector_Inject(p, c)
      [] name = "cli-tools" -> ToolsInitcontainerInjector_Inject(p, c)

InjectorInit ==
    /\ pod0 \in InjectorPods
    /\ pod = pod0
    /\ config \in InjectorConfs
    /\ last = "none"
    /\ NoAdmission
    /\ StoreAtRest

ApplyInjector(name) ==
    /\ pod' = Inject(name, pod, config)
    /\ last' = name
    /\ UNCHANGED <<kind, pod0, other, ns, pc, idx, err, invoked, calls, returned, config>>
    /\ UNCHANGED <<storeVars, reloadVars>>

ApplyProxyEnv == ApplyInjector("proxy-env")
ApplyUnixSocket == ApplyInjector("unix-socket")
ApplyCliTools == ApplyInjector("cli-tools")

InjectorNext == ApplyProxyEnv \/ ApplyUnixSocket \/ ApplyCliTools

InjectorSpec == InjectorInit /\ [][InjectorNext]_vars

-----------------------------------------------------------------------------
(* The tools injector under configurations with tools directories of many shapes *)

\* Values of cli_tools_dir_path: the default, with a trailing separator, with
\* a doubled separator, with "." and ".." components, relative, the root,
\* and the empty string of a document that lacks the key.
PathDirs ==
    { CliToolsDirPath,
      <<"/", "t", "/">>,
      <<"/", "o", "p", "t", "/", "/", "t", "o", "o", "l", "s", "/">>,
      <<"/", "a", "/", ".", "/", "b", "/", ".", ".", "/", "c">>,
      <<"t", "o", "o", "l", "s", "/">>,
      <<"/">>,
      <<>> }

PathConfs == { InjectConf(TRUE, ProxyPortEnvValue, CliToolsImage, d) : d \in PathDirs }

ToolsPathInit ==
    /\ pod0 \in InjectorPods
    /\ pod = pod0
    /\ config \in PathConfs
    /\ last = "none"
    /\ NoAdmission
    /\ StoreAtRest

ToolsPathNext == ApplyCliTools

ToolsPathSpec == ToolsPathInit /\ [][ToolsPathNext]_vars

-----------------------------------------------------------------------------
(* pod_webhook.go: PodCustomDefaulter *)

isNamespaceInjectionEnabled(n) ==
    IF n.err # "nil" THEN FALSE
    ELSE IF MapLen(n.labels) = 0 THEN FALSE
    ELSE IF ~HasKey(n.labels, NamespaceInjectLabelName)
            \/ n.labels.m[NamespaceInjectLabelName] # NamespaceInjectLabelValue
         THEN FALSE
    ELSE TRUE

\* isPodInjectionEnabled looking for the key alone.
isPodInjectionEnabled_anyvalue(p) == HasKey(p.annotations, PodInjectAnnotationName)

isPodInjectionEnabled(p) ==
    IF MapLen(p.annotations) = 0 THEN FALSE
    ELSE IF ~HasKey(p.annotations, PodInjectAnnotationName)
            \/ p.annotations.m[PodInjectAnnotationName] # PodInjectAnnotationValue
         THEN FALSE
    ELSE TRUE

\* injectRequired asking for both signals.
injectRequired_and(p, n) == isNamespaceInjectionEnabled(n) /\ isPodInjectionEnabled(p)

\* injectRequired taking a failed namespace lookup for a refusal.
injectRequired_abort(p, n) ==
    n.err = "nil" /\ (isNamespaceInjectionEnabled(n) \/ isPodInjectionEnabled(p))

injectRequired(p, n) == isNamespaceInjectionEnabled(n) \/ isPodInjectionEnabled(p)

\* Default handing the lookup's error on to its caller.
DefaultError_lookup(k, n) ==
    IF k # "Pod" THEN "expected an Pod object but got " \o k
    ELSE IF n.err # "nil" THEN n.err ELSE "nil"

\* What Default returns for an object of dynamic type k ("nil": no error);
\* the outcome n of the namespace lookup has no part in it.
DefaultError(k, n) ==
    IF k # "Pod" THEN "expected an Pod object but got " \o k ELSE "nil"

\* Default is called with the object: the type assertion, and for a Pod the
\* way into applyDefaults.
Default_Enter ==
    /\ pc \in {"idle", "returned"}
    /\ calls < MaxCalls
    /\ calls' = calls + 1
    /\ invoked' = <<>>
    /\ idx' = 1
    /\ IF kind # "Pod"
       THEN /\ err' = DefaultError(kind, ns)
            /\ pc' = "returned"
            /\ returned' = Append(returned, [pod |-> pod, config |-> config])
       ELSE /\ err' = "pending"
            /\ pc' = "getConfig"
            /\ UNCHANGED returned
    /\ UNCHANGED <<kind, pod, pod0, other, ns, injectVars, storeVars, reloadVars>>

\* applyDefaults: config := d.configManager.GetConfig().  The whole of
\* GetConfig: RLock, which waits while a writer holds the mutex or waits for
\* it, the copy of what cm.config is under the read lock, and RUnlock.
applyDefaults_GetConfig ==
    /\ pc = "getConfig"
    /\ ~mu.writer /\ rpc # "waiting"
    /\ config' = cmConfig
    /\ pc' = "injectRequired"
    /\ UNCHANGED <<kind, pod, pod0, other, ns, idx, err, invoked, calls, returned, last>>
    /\ UNCHANGED <<storeVars, reloadVars>>

\* applyDefaults returning early when the configuration has Enable false.
applyDefaults_Check_enable ==
    /\ pc = "injectRequired"
    /\ IF config.Enable /\ injectRequired(pod, ns)
       THEN /\ pc' = "inject"
            /\ UNCHANGED <<err, returned>>
       ELSE /\ pc' = "returned"
            /\ err' = DefaultError(kind, ns)
            /\ returned' = Append(returned, [pod |-> pod, config |-> config])
    /\ UNCHANGED <<kind, pod, pod0, other, ns, idx, invoked, calls, injectVars>>
    /\ UNCHANGED <<storeVars, reloadVars>>

\* applyDefaults: if !d.injectRequired(ctx, pod) { return }, and Default's return nil
applyDefaults_Check ==
    /\ pc = "injectRequired"
    /\ IF injectRequired(pod, ns)
       THEN /\ pc' = "inject"
            /\ UNCHANGED <<err, returned>>
       ELSE /\ pc' = "returned"
            /\ err' = DefaultError(kind, ns)
            /\ returned' = Append(returned, [pod |-> pod, config |-> config])
    /\ UNCHANGED <<kind, pod, pod0, other, ns, idx, invoked, calls, injectVars>>
    /\ UNCHANGED <<storeVars, reloadVars>>

\* A round of the loop in which the injector is given what the manager holds
\* at that moment instead of the snapshot of the call.
applyDefaults_Inject_fresh ==
    /\ pc = "inject"
    /\ pod' = Inject(Injectors[idx], pod, cmConfig)
    /\ last' = Injectors[idx]
    /\ invoked' = Append(invoked, Injectors[idx])
    /\ IF idx = Len(Injectors)
       THEN /\ pc' = "returned"
            /\ err' = DefaultError(kind, ns)
            /\ returned' = Append(returned, [pod |-> pod', config |-> config])
            /\ UNCHANGED idx
       ELSE /\ idx' = idx + 1
            /\ UNCHANGED <<pc, err, returned>>
    /\ UNCHANGED <<kind, pod0, other, ns, calls, config>>
    /\ UNCHANGED <<storeVars, reloadVars>>

\* applyDefaults: one round of for _, ij := range d.injectors { ij.Inject(pod, config) },
\* and after the last one Default's return nil
applyDefaults_Inject ==
    /\ pc = "inject"
    /\ pod' = Inject(Injectors[idx], pod, config)
    /\ last' = Injectors[idx]
    /\ invoked' = Append(invoked, Injectors[idx])
    /\ IF idx = Len(Injectors)
       THEN /\ pc' = "returned"
            /\ err' = DefaultError(kind, ns)
            /\ returned' = Append(returned, [pod |-> pod', config |-> config])
            /\ UNCHANGED idx
       ELSE /\ idx' = idx + 1
            /\ UNCHANGED <<pc, err, returned>>
    /\ UNCHANGED <<kind, pod0, other, ns, calls, config>>
    /\ UNCHANGED <<storeVars, reloadVars>>

\* Annotation maps of an incoming pod.
PodAnnotations ==
    { NilMap,
      Map(<<>>),
      Map([k \in {PodInjectAnnotationName} |-> "true"]),
      Map([k \in {PodInjectAnnotationName} |-> "false"]),
      Map([k \in {CliToolsImageAnnotation} |-> "custom/image:tag"]),
      Map([k \in {PodInjectAnnotationName, CliToolsImageAnnotation} |->
              IF k = PodInjectAnnotationName THEN "true" ELSE "custom/image:tag"]) }

\* What kubeClient.Get can come back with: the Namespace is not there, the
\* request failed, or a Namespace with these labels.
NsLookups ==
    { [err |-> "NotFound", labels |-> NilMap],
      [err |-> "Timeout", labels |-> NilMap],
      NsFound(NilMap),
      NsFound(Map([k \in {NamespaceInjectLabelName} |-> "enabled"])),
      NsFound(Map([k \in {NamespaceInjectLabelName} |-> "disabled"])),
      NsFound(Map([k \in {"team"} |-> "enabled"])) }

AdmissionContainers ==
    { Container("app", "nginx", "", <<>>, <<>>, <<>>),
      Container("web", "httpd", "", <<>>, <<UserEnv>>, <<UserMount>>),
      Container("sidecar", "nginx", "", <<>>,
                <<EnvVar(NodeNameEnvName, "my-node"), UserEnv>>,
                <<VolumeMount(CliToolsVolumeName, "/opt/tools"), UserMount>>) }

\* The pods of the admission calls: up to MaxContainers containers of
\* different names; without init containers and volumes, or with an init
\* container and a volume of the user's.
AdmissionPods ==
    { MakePod(a, cs, b[1], b[2]) :
        a \in PodAnnotations,
        cs \in { q \in SeqsUpTo(AdmissionContainers, MaxContainers) : NoDupNames(q) },
        b \in { <<<<>>, <<>>>>,
                << <<Container("setup", "busybox", "", <<"true">>, <<>>, <<>>)>>,
                   <<UserVolume>> >> } }

\* The config files an admission call is run against.
AdmissionFiles == {FileMissing, FullFile}

ReplaceFile == WriteFileFrom(AdmissionFiles)

Init ==
    /\ \/ kind = "Pod" /\ pod0 \in AdmissionPods
       \/ kind = "ConfigMap" /\ pod0 = EmptyPod
    /\ pod = pod0
    /\ other = NoOtherCall
    /\ ns \in NsLookups
    /\ pc = "idle" /\ idx = 1 /\ err = "pending"
    /\ invoked = <<>> /\ calls = 0 /\ returned = <<>>
    /\ last = "none"
    /\ \E f \in AdmissionFiles : NewConfigManager(f)
    /\ config = cmConfig

Next ==
    \/ Default_Enter
    \/ applyDefaults_GetConfig
    \/ applyDefaults_Check
    \/ applyDefaults_Inject
    \/ Start_Tick \/ reload_Lock \/ reload_Locked \/ reload_Swap
    \/ ReplaceFile

Spec == Init /\ [][Next]_vars

-----------------------------------------------------------------------------
(* Two calls of Default in progress at once, on different Pod objects *)

\* What belongs to the first call alone.
callVars == <<kind, pod, pod0, ns, pc, idx, err, invoked, calls, returned>>

\* applyDefaults of the second call: config := d.configManager.GetConfig()
Other_GetConfig ==
    /\ other.pc = "getConfig"
    /\ ~mu.writer /\ rpc # "waiting"
    /\ other' = [other EXCEPT !.config = cmConfig, !.pc = "injectRequired"]
    /\ UNCHANGED <<callVars, injectVars, storeVars, reloadVars>>

\* applyDefaults of the second call: if !d.injectRequired(ctx, pod) { return }
Other_Check ==
    /\ other.pc = "injectRequired"
    /\ other' = [other EXCEPT !.pc = IF injectRequired(other.pod, other.ns)
                                     THEN "inject" ELSE "returned"]
    /\ UNCHANGED <<callVars, injectVars, storeVars, reloadVars>>

\* A round of the second call's loop in which the injector works with the
\* configuration of the first call instead of the one it is passed.
Other_Inject_cached ==
    /\ other.pc = "inject"
    /\ other' = [other EXCEPT
                    !.pod = Inject(Injectors[other.idx], other.pod, config),
                    !.idx = IF other.idx = Len(Injectors) THEN @ ELSE @ + 1,
                    !.pc = IF other.idx = Len(Injectors) THEN "returned" ELSE @]
    /\ UNCHANGED <<callVars, injectVars, storeVars, reloadVars>>

\* applyDefaults of the second call: one round of
\* for _, ij := range d.injectors { ij.Inject(pod, config) }
Other_Inject ==
    /\ other.pc = "inject"
    /\ other' = [other EXCEPT
                    !.pod = Inject(Injectors[other.idx], other.pod, other.config),
                    !.idx = IF other.idx = Len(Injectors) THEN @ ELSE @ + 1,
                    !.pc = IF other.idx = Len(Injectors) THEN "returned" ELSE @]
    /\ UNCHANGED <<callVars, injectVars, storeVars, reloadVars>>

\* Pods and Namespace lookups of two concurrent calls.
ConcurrentPods ==
    { MakePod(a, <<c>>, <<>>, <<>>) :
        a \in { NilMap, Map([k \in {PodInjectAnnotationName} |-> "true"]) },
        c \in { d \in AdmissionContainers : d.name # "web" } }

ConcurrentNs ==
    { NsFound(NilMap), NsFound(Map([k \in {NamespaceInjectLabelName} |-> "enabled"])) }

ConcurrentInit ==
    /\ kind = "Pod"
    /\ pod0 \in ConcurrentPods
    /\ pod = pod0
    /\ ns \in ConcurrentNs
    /\ \E q \in ConcurrentPods, n \in ConcurrentNs :
          other = [pc |-> "getConfig", pod0 |-> q, pod |-> q, ns |-> n,
                   idx |-> 1, config |-> NewDefaultInjectConf]
    /\ pc = "idle" /\ idx = 1 /\ err = "pending"
    /\ invoked = <<>> /\ calls = 0 /\ returned = <<>>
    /\ last = "none"
    /\ \E f \in AdmissionFiles : NewConfigManager(f)
    /\ config = cmConfig

ConcurrentNext ==
    \/ Default_Enter
    \/ applyDefaults_GetConfig
    \/ applyDefaults_Check
    \/ applyDefaults_Inject
    \/ Other_GetConfig
    \/ Other_Check
    \/ Other_Inject
    \/ Start_Tick \/ reload_Lock \/ reload_Locked \/ reload_Swap
    \/ ReplaceFile

ConcurrentSpec == ConcurrentInit /\ [][ConcurrentNext]_vars

-----------------------------------------------------------------------------
(* Callers of GetConfig that keep and write to what they were given *)

\* The manager is built before the config file is there, and the file is
\* put in place, with all four keys, while the manager runs.
CreateFile == WriteFileFrom({FullFile})

CopyInit ==
    /\ NewConfigManager(FileMissing)
    /\ NoAdmission
    /\ NoInjection

CopyNext ==
    \/ GetConfig_RLock \/ GetConfig_Copy \/ GetConfig_Keep
    \/ Caller_Write
    \/ Start_Tick \/ reload_Lock \/ reload_Locked \/ reload_Swap
    \/ CreateFile

CopySpec == CopyInit /\ [][CopyNext]_vars

-----------------------------------------------------------------------------
(* Properties of the injectors *)

IsPrefix(s, t) == Len(s) <= Len(t) /\ SubSeq(t, 1, Len(s)) = s

\* The four uniqueness properties of a pod.
UniqueNames(p) ==
    /\ NoDupNames(p.volumes)
    /\ NoDupNames(p.initContainers)
    /\ \A i \in DOMAIN p.containers :
          /\ NoDupNames(p.containers[i].env)
          /\ NoDupNames(p.containers[i].volumeMounts)

\* Every list of q starts with the corresponding list of p, entry for entry.
AppendOnly(p, q) ==
    /\ Len(q.containers) = Len(p.containers)
    /\ IsPrefix(p.volumes, q.volumes)
    /\ IsPrefix(p.initContainers, q.initContainers)
    /\ \A i \in DOMAIN p.containers :
          /\ IsPrefix(p.containers[i].env, q.containers[i].env)
          /\ IsPrefix(p.containers[i].volumeMounts, q.containers[i].volumeMounts)

\* C1: each injector is idempotent.  The pod an injector has just produced,
\* from whatever pod it was given, is left exactly as it is by a second run
\* of the same injector with the same configuration.
C1_Idempotent == last # "none" => Inject(last, pod, config) = pod

\* The proxy injector has run on a pod in which a container already had a
\* NODE_NAME of its own and has appended the variables that were missing.
C1_Witness ==
    /\ last = "proxy-env"
    /\ \E i \in DOMAIN pod.containers :
          /\ HasName(pod0.containers[i].env, NodeNameEnvName)
          /\ ~HasName(pod0.containers[i].env, ProxyEnvName)
          /\ HasName(pod.containers[i].env, ProxyEnvName)

\* C6: the tools injector decides per container.  Right after it has run,
\* every container has a mount named d7y-cli-tools-volume and an env var
\* named DRAGONFLY_TOOLS_PATH, whatever the other containers had before.
C6_PerContainer ==
    last = "cli-tools" =>
        \A i \in DOMAIN pod.containers :
            /\ HasName(pod.containers[i].volumeMounts, CliToolsVolumeName)
            /\ HasName(pod.containers[i].env, CliToolsPathEnvName)

\* Container 1 came with the tools mount and env var, container 2 with
\* neither, and the tools injector has given both to container 2.
C6_Witness ==
    /\ last = "cli-tools"
    /\ Len(pod0.containers) >= 2
    /\ HasName(pod0.containers[1].volumeMounts, CliToolsVolumeName)
    /\ HasName(pod0.containers[1].env, CliToolsPathEnvName)
    /\ ~HasName(pod0.containers[2].volumeMounts, CliToolsVolumeName)
    /\ ~HasName(pod0.containers[2].env, CliToolsPathEnvName)
    /\ HasName(pod.containers[2].volumeMounts, CliToolsVolumeName)
    /\ HasName(pod.containers[2].env, CliToolsPathEnvName)

\* C7: injection is a non-destructive append.  Every run of an injector
\* leaves each env list, mount list, the volume list and the init-container
\* list with the list before the run as an exact prefix.
C7_NonDestructiveAppend == [][AppendOnly(pod, pod')]_vars

\* An injector has run on a pod with entries of its own in a container's env
\* and mount lists and in the volume list, and all three lists have grown.
C7_Witness ==
    /\ last # "none"
    /\ Len(pod0.volumes) > 0 /\ Len(pod.volumes) > Len(pod0.volumes)
    /\ \E i \in DOMAIN pod.containers :
          /\ Len(pod0.containers[i].env) > 0
          /\ Len(pod.containers[i].env) > Len(pod0.containers[i].env)
          /\ Len(pod0.containers[i].volumeMounts) > 0
          /\ Len(pod.containers[i].volumeMounts) > Len(pod0.containers[i].volumeMounts)

\* C8: the injectors preserve name uniqueness.  A pod that came without
\* duplicate env-var, mount, volume or init-container names has none after
\* any injector, in any order of the injectors.
C8_UniqueNames == UniqueNames(pod0) => UniqueNames(pod)

\* A pod without duplicates that already carried some of the reserved names
\* has been through the socket and the tools injector.
C8_Witness ==
    /\ UniqueNames(pod0)
    /\ last = "cli-tools"
    /\ HasName(pod0.volumes, DfdaemonUnixSockVolumeName)
    /\ HasName(pod.volumes, CliToolsVolumeName)
    /\ \E i \in DOMAIN pod.containers :
          /\ HasName(pod0.containers[i].volumeMounts, DfdaemonUnixSockVolumeName)
          /\ ~HasName(pod0.containers[i].volumeMounts, CliToolsVolumeName)
          /\ HasName(pod.containers[i].volumeMounts, CliToolsVolumeName)

-----------------------------------------------------------------------------
(* Properties of the admission call *)

\* The namespace signal: the lookup brought a Namespace labelled
\* dragonflyoss-injection=enabled.
NamespaceLabelled ==
    /\ ns.err = "nil"
    /\ HasKey(ns.labels, "dragonflyoss-injection")
    /\ ns.labels.m["dragonflyoss-injection"] = "enabled"

\* The pod signal: the pod is annotated dragonfly.io/inject=true.
PodAnnotated ==
    /\ HasKey(pod0.annotations, "dragonfly.io/inject")
    /\ pod0.annotations.m["dragonfly.io/inject"] = "true"

Returned == pc = "returned"

\* C2: for a Pod, the injectors are invoked if and only if the namespace
\* signal or the pod signal is true.  No injector runs without one of them,
\* and with one of them the call has run all three by the time it returns.
C2_Eligibility ==
    kind = "Pod" =>
        /\ invoked # <<>> => (NamespaceLabelled \/ PodAnnotated)
        /\ Returned => (invoked = Injectors <=> (NamespaceLabelled \/ PodAnnotated))

\* A call has returned after running the injectors for a pod annotated
\* "true" whose namespace carries the label with the value "disabled".
C2_Witness ==
    /\ kind = "Pod" /\ Returned /\ invoked = Injectors
    /\ PodAnnotated
    /\ ns.err = "nil" /\ HasKey(ns.labels, "dragonflyoss-injection")
    /\ ns.labels.m["dragonflyoss-injection"] = "disabled"

\* C3: an ineligible pod is left completely unchanged, at every point of the
\* call, and Default returns nil.
C3_IneligibleUnchanged ==
    (kind = "Pod" /\ ~NamespaceLabelled /\ ~PodAnnotated) =>
        /\ pod = pod0
        /\ invoked = <<>>
        /\ Returned => err = "nil"

\* A call has returned for a pod with containers that is annotated "false"
\* in a namespace labelled "disabled".
C3_Witness ==
    /\ kind = "Pod" /\ Returned /\ err = "nil" /\ pod = pod0
    /\ Len(pod0.containers) > 0
    /\ HasKey(pod0.annotations, "dragonfly.io/inject")
    /\ pod0.annotations.m["dragonfly.io/inject"] = "false"
    /\ ns.err = "nil" /\ HasKey(ns.labels, "dragonflyoss-injection")
    /\ ns.labels.m["dragonflyoss-injection"] = "disabled"

\* C4: Default returns an error if and only if the object is not a Pod, and
\* then no injector has run; for a Pod it returns nil whatever the lookup,
\* the configuration and the eligibility were.
C4_ErrorOnlyForNonPod ==
    Returned =>
        /\ err # "nil" <=> kind # "Pod"
        /\ kind # "Pod" => (invoked = <<>> /\ pod = pod0)

\* Default has returned nil for a Pod whose namespace lookup failed.
C4_Witness == Returned /\ kind = "Pod" /\ ns.err = "Timeout" /\ err = "nil"

\* C5: when the namespace lookup fails, eligibility is the pod signal alone:
\* without the annotation the pod is unchanged, with it the pod is mutated,
\* and in both cases Default returns nil.
C5_LookupFailure ==
    (kind = "Pod" /\ ns.err # "nil" /\ Returned) =>
        /\ err = "nil"
        /\ invoked = Injectors <=> PodAnnotated
        /\ ~PodAnnotated => pod = pod0

\* The namespace was not found, the pod is annotated, and the call has
\* returned with the pod mutated.
C5_Witness ==
    /\ kind = "Pod" /\ ns.err = "NotFound" /\ Returned /\ PodAnnotated
    /\ invoked = Injectors /\ pod # pod0 /\ err = "nil"

\* C9: a retried call converges.  For an eligible pod, two calls of Default
\* that ran with the same configuration leave the pod, at the later return,
\* exactly as it was at the earlier one.
C9_RetryConverges ==
    \A i, j \in DOMAIN returned :
        (/\ i < j
         /\ kind = "Pod" /\ (NamespaceLabelled \/ PodAnnotated)
         /\ returned[i].config = returned[j].config)
        => returned[j].pod = returned[i].pod

\* Two calls with one configuration have returned for an eligible pod with
\* containers, the first of which mutated it.
C9_Witness ==
    /\ Len(returned) >= 2
    /\ kind = "Pod" /\ (NamespaceLabelled \/ PodAnnotated)
    /\ returned[1].config = returned[2].config
    /\ Len(pod0.containers) > 0
    /\ returned[1].pod # pod0

-----------------------------------------------------------------------------
(* Properties of the configuration store *)

\* C10: LoadInjectConf never fails its caller.  A load that found the file
\* missing, unreadable or unparsable has produced exactly the compiled-in
\* defaults, and so a GetConfig on a manager whose configuration comes from
\* a directory without config.yaml copies exactly those defaults.
IsCompiledInDefault(c) ==
    /\ c.Enable = TRUE
    /\ c.ProxyPort = 4001
    /\ c.CliToolsImage = "dragonflyoss/cli-tools:latest"
    /\ Str(c.CliToolsDirPath) = "/dragonfly-tools"

C10_LoadFallback ==
    /\ loadedFrom.state # "ok" => IsCompiledInDefault(loaded)
    /\ (gpc = "copied" /\ cmFrom.state = "missing") =>
          (Len(got) = 1 /\ IsCompiledInDefault(got[1]))

\* A reload has just loaded an unparsable file while a reader has copied the
\* configuration of a manager built over a directory without config.yaml.
C10_Witness ==
    /\ rpc = "loaded" /\ loadedFrom.state = "malformed"
    /\ gpc = "copied" /\ cmFrom.state = "missing"

\* C11: GetConfig returns a private copy.  A write through a pointer that
\* GetConfig returned changes the one object that pointer refers to: the
\* configuration the manager holds stays what it loaded from its file, the
\* copy a call in progress has made stays, and so does what every other
\* returned pointer refers to.
C11_PrivateCopy ==
    /\ [](cmConfig = LoadInjectConf(cmFrom))
    /\ [][(Len(held') = Len(held) /\ held' # held) =>
             /\ cmConfig' = cmConfig
             /\ got' = got
             /\ Cardinality({i \in DOMAIN held : held'[i] # held[i]}) = 1]_vars

\* Two callers kept their pointers to copies of one configuration, one of
\* them has overwritten the port and the image of its copy, the other copy is
\* as the manager's configuration, and a later call has copied that too.
C11_Witness ==
    /\ Len(held) = 2
    /\ held[1].val.ProxyPort = 0 - 1 /\ held[1].val.CliToolsImage = "mine"
    /\ held[2].val = cmConfig
    /\ cmConfig = LoadInjectConf(cmFrom)
    /\ gpc = "copied" /\ got = <<cmConfig>>

\* C12: a reader sees one whole configuration.  Whatever reloads run beside
\* it, the value a GetConfig call has copied is there (never nil), is the
\* complete result of loading the file content the manager last stored, and
\* so has all four fields from one load of one file; no writer holds the
\* mutex while the reader does.
C12_WholeConfig ==
    /\ gpc = "copied" => (Len(got) = 1 /\ got[1] = LoadInjectConf(cmFrom))
    /\ \A i \in DOMAIN got : \E f \in Files : got[i] = LoadInjectConf(f)
    /\ gpc \in {"rlocked", "copied"} => (~mu.writer /\ mu.readers = 1)

\* A reader has copied the stored configuration while a reload that loaded a
\* different one waits for the mutex.
C12_Witness ==
    /\ gpc = "copied" /\ rpc = "waiting"
    /\ loaded # cmConfig /\ got = <<cmConfig>>
    /\ loaded.ProxyPort # cmConfig.ProxyPort /\ loaded.CliToolsImage # cmConfig.CliToolsImage

\* C13: Start runs until its context is cancelled and then returns nil.  It
\* has not returned while the context is live, what it returns is nil and
\* nothing else, whatever the reloads read, and once the context is
\* cancelled it does return.
C13_StartReturnsNil ==
    /\ [](startRet \in {"running", "nil"})
    /\ [](~cancelled => (startRet = "running" /\ rpc # "returned"))
    /\ (cancelled ~> startRet = "nil")

\* Start has returned nil after a reload that found the file unparsable and
\* stored the defaults in its place.
C13_Witness ==
    /\ startRet = "nil" /\ cancelled
    /\ loadedFrom.state = "malformed" /\ cmFrom.state = "malformed"

\* C14: hot reload takes effect.  When a reload completes, the stored
\* configuration is the one loaded from the file as the reload read it, and
\* a GetConfig copies what is stored; and while Start is not cancelled, a
\* file content that stays in place is, from some point on, the content the
\* manager holds and every GetConfig copies.
C14_HotReload ==
    /\ [][(rpc = "locked" /\ rpc' = "select") =>
             (cmConfig' = LoadInjectConf(loadedFrom) /\ cmFrom' = loadedFrom)]_vars
    /\ [](gpc = "copied" => got = <<cmConfig>>)
    /\ \A f \in Files :
          <>[](file = f /\ ~cancelled) =>
              <>[](/\ cmConfig = LoadInjectConf(f)
                   /\ gpc = "copied" => got = <<LoadInjectConf(f)>>)

\* A caller that got the defaults from an earlier GetConfig is inside a later
\* one, after a reload has stored what the file now holds: a document that
\* sets proxy_port alone.
C14_Witness ==
    /\ gpc = "rlocked" /\ got = <<NewDefaultInjectConf>>
    /\ file = PartialFile /\ cmFrom = PartialFile
    /\ cmConfig.ProxyPort = 1234 /\ cmConfig # NewDefaultInjectConf

-----------------------------------------------------------------------------
(* Properties of the result of an admission call *)

Range(s) == {s[i] : i \in DOMAIN s}

\* What t has after its first n entries.
Rest(t, n) == SubSeq(t, n + 1, Len(t))

Names(s) == [i \in DOMAIN s |-> s[i].name]

Eligible == NamespaceLabelled \/ PodAnnotated

ReservedEnvNames ==
    {"NODE_NAME", "DRAGONFLY_PROXY_PORT", "DRAGONFLY_INJECT_PROXY", "DRAGONFLY_TOOLS_PATH"}

ReservedVolumeNames == {"dfdaemon-unix-sock", "d7y-cli-tools-volume"}

\* The pod came without any entry of a reserved name: no volume, init
\* container, env var or mount that an injector would look for.
NoDragonflyEntries(p) ==
    /\ \A i \in DOMAIN p.volumes : p.volumes[i].name \notin ReservedVolumeNames
    /\ \A i \in DOMAIN p.initContainers : p.initContainers[i].name # "d7y-cli-tools"
    /\ \A i \in DOMAIN p.containers :
          /\ \A j \in DOMAIN p.containers[i].env :
                p.containers[i].env[j].name \notin ReservedEnvNames
          /\ \A j \in DOMAIN p.containers[i].volumeMounts :
                p.containers[i].volumeMounts[j].name \notin ReservedVolumeNames

\* The mount path of the tools volume under configuration c.
ToolsMountPath(c) == Str(Clean(c.CliToolsDirPath)) \o "-mount"

\* q is p with the full injection of configuration c and the init container
\* image img: after what p had, in every container the four env vars
\* (NODE_NAME as a field reference to spec.nodeName, the port as the decimal
\* string of c.ProxyPort, the proxy URL, the tools path) and the socket and
\* tools mounts; the hostPath socket volume and the emptyDir tools volume;
\* one init container d7y-cli-tools with image img.
FullInjection(p, q, c, img) ==
    LET mp == ToolsMountPath(c)
        port == Itoa(c.ProxyPort)
    IN  /\ Len(q.containers) = Len(p.containers)
        /\ \A i \in DOMAIN p.containers :
              LET b == p.containers[i]
                  a == q.containers[i]
              IN  /\ IsPrefix(b.env, a.env)
                  /\ Len(a.env) = Len(b.env) + 4
                  /\ Range(Rest(a.env, Len(b.env))) =
                        { [name |-> "NODE_NAME", value |-> "", fieldPath |-> "spec.nodeName"],
                          [name |-> "DRAGONFLY_PROXY_PORT", value |-> port, fieldPath |-> ""],
                          [name |-> "DRAGONFLY_INJECT_PROXY",
                           value |-> "http://$(NODE_NAME):$(DRAGONFLY_PROXY_PORT)",
                           fieldPath |-> ""],
                          [name |-> "DRAGONFLY_TOOLS_PATH", value |-> mp, fieldPath |-> ""] }
                  /\ IsPrefix(b.volumeMounts, a.volumeMounts)
                  /\ Len(a.volumeMounts) = Len(b.volumeMounts) + 2
                  /\ Range(Rest(a.volumeMounts, Len(b.volumeMounts))) =
                        { [name |-> "dfdaemon-unix-sock",
                           mountPath |-> "/var/run/dragonfly/dfdaemon.sock"],
                          [name |-> "d7y-cli-tools-volume", mountPath |-> mp] }
                  /\ a.name = b.name /\ a.image = b.image
        /\ IsPrefix(p.volumes, q.volumes)
        /\ Len(q.volumes) = Len(p.volumes) + 2
        /\ Range(Rest(q.volumes, Len(p.volumes))) =
              { [name |-> "dfdaemon-unix-sock", source |-> "HostPath",
                 path |-> "/var/run/dragonfly/dfdaemon.sock", type |-> "Socket"],
                [name |-> "d7y-cli-tools-volume", source |-> "EmptyDir",
                 path |-> "", type |-> ""] }
        /\ IsPrefix(p.initContainers, q.initContainers)
        /\ Len(q.initContainers) = Len(p.initContainers) + 1
        /\ q.initContainers[Len(q.initContainers)].name = "d7y-cli-tools"
        /\ q.initContainers[Len(q.initContainers)].image = img
        /\ q.annotations = p.annotations
        /\ c = NewDefaultInjectConf =>
              /\ port = "4001"
              /\ mp = "/dragonfly-tools-mount"
              /\ c.CliToolsImage = "dragonflyoss/cli-tools:latest"
        /\ c.ProxyPort = 8001 => port = "8001"

\* C15 as the specification words it: for an eligible pod that came without
\* Dragonfly entries, the pod at the first return of Default with
\* configuration c has the full injection, and its init container
\* d7y-cli-tools has the image c.CliToolsImage.
C15_ImageFromConfig ==
    (kind = "Pod" /\ Eligible /\ NoDragonflyEntries(pod0) /\ Len(returned) >= 1) =>
        FullInjection(pod0, returned[1].pod, returned[1].config,
                      returned[1].config.CliToolsImage)

\* C15: the full injection.  For an eligible pod that came without Dragonfly
\* entries, the pod at the first return of Default with configuration c has,
\* after what it came with: in every container the four env vars (NODE_NAME
\* as a field reference to spec.nodeName, the port as the decimal string of
\* c.ProxyPort, the proxy URL, the tools path) and the socket and tools
\* mounts; the hostPath socket volume and the emptyDir tools volume; one init
\* container d7y-cli-tools, whose image is the value of the pod's annotation
\* dragonfly.io/cli-tools-image if the pod has one and c.CliToolsImage if it
\* has none.  This includes the pod without containers, and with the default
\* configuration the values are "4001", "/dragonfly-tools-mount" and, for a
\* pod without the annotation, dragonflyoss/cli-tools:latest.
C15_FullInjection ==
    (kind = "Pod" /\ Eligible /\ NoDragonflyEntries(pod0) /\ Len(returned) >= 1) =>
        /\ FullInjection(pod0, returned[1].pod, returned[1].config,
              IF HasKey(pod0.annotations, "dragonfly.io/cli-tools-image")
              THEN pod0.annotations.m["dragonfly.io/cli-tools-image"]
              ELSE returned[1].config.CliToolsImage)
        /\ (/\ returned[1].config = NewDefaultInjectConf
            /\ ~HasKey(pod0.annotations, "dragonfly.io/cli-tools-image")) =>
              returned[1].pod.initContainers[Len(returned[1].pod.initContainers)].image
                 = "dragonflyoss/cli-tools:latest"

\* Default has returned for an annotated pod without containers that asks
\* for the image custom/image:tag, run with the default configuration: the
\* pod has the two volumes and the init container, with the image of the
\* annotation and not the configured one.
C15_Witness ==
    /\ kind = "Pod" /\ PodAnnotated /\ NoDragonflyEntries(pod0)
    /\ HasKey(pod0.annotations, "dragonfly.io/cli-tools-image")
    /\ Len(returned) >= 1
    /\ pod0.containers = <<>> /\ pod0.volumes = <<>> /\ pod0.initContainers = <<>>
    /\ returned[1].config = NewDefaultInjectConf
    /\ Len(returned[1].pod.volumes) = 2
    /\ Len(returned[1].pod.initContainers) = 1
    /\ returned[1].pod.initContainers[1].image = "custom/image:tag"

\* C16: the image of the init container.  The init container d7y-cli-tools
\* that the tools injector has appended to a pod that had none has the value
\* of the pod's annotation dragonfly.io/cli-tools-image as its image if the
\* pod has that key, and the configuration's CliToolsImage if it does not,
\* be it for a map of other annotations or for no map at all.
C16_ImageResolution ==
    \A i \in DOMAIN pod.initContainers :
        (/\ pod.initContainers[i].name = "d7y-cli-tools"
         /\ \A j \in DOMAIN pod0.initContainers :
               pod0.initContainers[j].name # "d7y-cli-tools")
        => pod.initContainers[i].image =
              IF "dragonfly.io/cli-tools-image" \in DOMAIN pod.annotations.m
              THEN pod.annotations.m["dragonfly.io/cli-tools-image"]
              ELSE config.CliToolsImage

\* The tools injector has appended the init container to a pod annotated
\* with custom/image:tag, and its image is that and not the configured one.
C16_Witness ==
    /\ last = "cli-tools"
    /\ "dragonfly.io/cli-tools-image" \in DOMAIN pod.annotations.m
    /\ pod0.initContainers = <<>>
    /\ Len(pod.initContainers) = 1
    /\ pod.initContainers[1].name = "d7y-cli-tools"
    /\ pod.initContainers[1].image = "custom/image:tag"
    /\ config.CliToolsImage # "custom/image:tag"

\* C17: the pod's annotation has priority over the namespace's label.  A
\* pod that carries dragonfly.io/inject with a value other than "true" is
\* left out of injection, without socket volume, init container or env
\* vars, also in a namespace labelled dragonflyoss-injection=enabled.
C17_PodAnnotationPriority ==
    (/\ kind = "Pod"
     /\ HasKey(pod0.annotations, "dragonfly.io/inject")
     /\ pod0.annotations.m["dragonfly.io/inject"] # "true"
     /\ NamespaceLabelled)
    => (invoked = <<>> /\ pod = pod0)

\* The pod as it was when call k of Default began.
Before(k) == IF k = 1 THEN pod0 ELSE returned[k - 1].pod

\* q is p with at most 4 env vars of the reserved names and 2 mounts more in
\* each container, 2 volumes and 1 init container more, and nothing less.
BoundedAdditions(p, q) ==
    /\ AppendOnly(p, q)
    /\ Len(q.volumes) <= Len(p.volumes) + 2
    /\ Len(q.initContainers) <= Len(p.initContainers) + 1
    /\ \A i \in DOMAIN p.containers :
          LET b == p.containers[i]
              a == q.containers[i]
          IN  /\ Len(a.env) <= Len(b.env) + 4
              /\ \A j \in (Len(b.env) + 1)..Len(a.env) : a.env[j].name \in ReservedEnvNames
              /\ Len(a.volumeMounts) <= Len(b.volumeMounts) + 2

\* C18: one call of Default adds to each container at most 4 env vars, of
\* the four reserved names only, and at most 2 mounts, and to the pod at
\* most 2 volumes and 1 init container; it removes and reorders nothing and
\* leaves the number of containers as it is.  This holds of the pod at each
\* return against the pod at that call's start, and of the pod in between.
C18_BoundedAdditions ==
    /\ \A k \in DOMAIN returned : BoundedAdditions(Before(k), returned[k].pod)
    /\ BoundedAdditions(IF pc = "returned" THEN Before(Len(returned))
                        ELSE Before(Len(returned) + 1), pod)

\* A second call has returned for a pod that had come with a container
\* holding NODE_NAME and the tools mount: the first call added less than the
\* most to that container, and the first call added both volumes.
C18_Witness ==
    /\ Len(returned) = 2
    /\ \E i \in DOMAIN pod0.containers :
          /\ HasName(pod0.containers[i].env, "NODE_NAME")
          /\ Len(returned[1].pod.containers[i].env) = Len(pod0.containers[i].env) + 3
          /\ Len(returned[1].pod.containers[i].volumeMounts) =
                Len(pod0.containers[i].volumeMounts) + 1
    /\ Len(pod0.volumes) > 0
    /\ Len(returned[1].pod.volumes) = Len(pod0.volumes) + 2

\* C19: the injectors run once each in the order proxy-env, unix-socket,
\* cli-tools.  The injectors a call has invoked are at every point the first
\* ones of that order, and all three when the call returns for an eligible
\* pod; and at the first return, what a container without reserved env names
\* got is named NODE_NAME, DRAGONFLY_PROXY_PORT, DRAGONFLY_INJECT_PROXY,
\* DRAGONFLY_TOOLS_PATH in this order, a container without reserved mounts
\* got the socket mount before the tools mount, and a pod without reserved
\* volumes got the socket volume before the tools volume.
C19_FixedOrder ==
    /\ IsPrefix(invoked, <<"proxy-env", "unix-socket", "cli-tools">>)
    /\ (kind = "Pod" /\ Eligible /\ Returned) =>
          invoked = <<"proxy-env", "unix-socket", "cli-tools">>
    /\ (kind = "Pod" /\ Eligible /\ Len(returned) >= 1) =>
          LET q == returned[1].pod
          IN  /\ \A i \in DOMAIN pod0.containers :
                    LET b == pod0.containers[i]
                        a == q.containers[i]
                    IN  /\ (\A j \in DOMAIN b.env : b.env[j].name \notin ReservedEnvNames)
                            => Names(Rest(a.env, Len(b.env))) =
                                 <<"NODE_NAME", "DRAGONFLY_PROXY_PORT",
                                   "DRAGONFLY_INJECT_PROXY", "DRAGONFLY_TOOLS_PATH">>
                        /\ (\A j \in DOMAIN b.volumeMounts :
                                b.volumeMounts[j].name \notin ReservedVolumeNames)
                            => Names(Rest(a.volumeMounts, Len(b.volumeMounts))) =
                                 <<"dfdaemon-unix-sock", "d7y-cli-tools-volume">>
              /\ (\A j \in DOMAIN pod0.volumes :
                      pod0.volumes[j].name \notin ReservedVolumeNames)
                  => Names(Rest(q.volumes, Len(pod0.volumes))) =
                       <<"dfdaemon-unix-sock", "d7y-cli-tools-volume">>

\* Default has returned for an annotated pod whose container had an env var
\* and a mount of the user's and whose volume list had a volume of the
\* user's, after running the three injectors.
C19_Witness ==
    /\ kind = "Pod" /\ PodAnnotated /\ Returned /\ Len(returned) = 1
    /\ Len(invoked) = 3
    /\ Len(pod0.containers) > 0
    /\ Names(pod0.containers[1].env) = <<"FOO">>
    /\ Names(pod0.containers[1].volumeMounts) = <<"data">>
    /\ Names(pod0.volumes) = <<"data">>
    /\ Len(pod.containers[1].env) = 5

\* The pod Default makes of p with configuration c when p is eligible.
DefaultResult(p, c) ==
    Inject("cli-tools", Inject("unix-socket", Inject("proxy-env", p, c), c), c)

\* C20: Enable is advisory.  A call of Default for an eligible pod runs all
\* three injectors also when its configuration has Enable false, and the pod
\* at the first return is the pod that the configuration with Enable true
\* and the other fields as they are gives.
C20_EnableAdvisory ==
    (kind = "Pod" /\ Eligible /\ Len(returned) >= 1) =>
        /\ returned[1].pod = DefaultResult(pod0, [returned[1].config EXCEPT !.Enable = TRUE])
        /\ (Returned /\ ~config.Enable) => Len(invoked) = 3

\* Default has returned for an eligible pod with a container, run with a
\* configuration that has Enable false, and the pod is mutated.
C20_Witness ==
    /\ kind = "Pod" /\ Eligible /\ Returned /\ Len(returned) = 1
    /\ returned[1].config.Enable = FALSE
    /\ Len(invoked) = 3
    /\ Len(pod0.containers) > 0
    /\ pod # pod0
    /\ HasName(pod.containers[1].env, "DRAGONFLY_PROXY_PORT")

-----------------------------------------------------------------------------
(* Properties of entries that were there before *)

\* The positions of the entries of s named n.
Named(s, n) == {i \in DOMAIN s : s[i].name = n}

\* Of every name in names that list s has, list t has the same entries at
\* the same positions, with the same content, and no further one.
Kept(s, t, names) ==
    \A n \in names :
        Named(s, n) # {} =>
            /\ Named(t, n) = Named(s, n)
            /\ \A i \in Named(s, n) : t[i] = s[i]

\* C21: an entry that is there under a reserved name wins, by its name alone.
\* An env var, mount, volume or init container of a reserved name that the
\* pod came with is still there after any injectors, at its place and with
\* its content, whatever that is, and it is the only one of its name; the
\* entries that were absent are appended all the same: after the proxy
\* injector each container has the three proxy variables, after the socket
\* injector the pod has a socket volume and each container a socket mount.
C21_ExistingNameWins ==
    /\ Kept(pod0.volumes, pod.volumes, ReservedVolumeNames)
    /\ Kept(pod0.initContainers, pod.initContainers, {"d7y-cli-tools"})
    /\ Len(pod.containers) = Len(pod0.containers)
    /\ \A i \in DOMAIN pod0.containers :
          /\ Kept(pod0.containers[i].env, pod.containers[i].env, ReservedEnvNames)
          /\ Kept(pod0.containers[i].volumeMounts, pod.containers[i].volumeMounts,
                  ReservedVolumeNames)
    /\ last = "proxy-env" =>
          \A i \in DOMAIN pod.containers :
              \A n \in {"NODE_NAME", "DRAGONFLY_PROXY_PORT", "DRAGONFLY_INJECT_PROXY"} :
                  Named(pod.containers[i].env, n) # {}
    /\ last = "unix-socket" =>
          /\ Named(pod.volumes, "dfdaemon-unix-sock") # {}
          /\ \A i \in DOMAIN pod.containers :
                Named(pod.containers[i].volumeMounts, "dfdaemon-unix-sock") # {}

\* The socket injector has run on a pod that came with an emptyDir volume
\* named dfdaemon-unix-sock and a container whose mount of that name has a
\* path of its own: both are as they were, and a container without the mount
\* has got it.
C21_Witness ==
    /\ last = "unix-socket"
    /\ \E k \in DOMAIN pod0.volumes :
          /\ pod0.volumes[k].name = "dfdaemon-unix-sock"
          /\ pod0.volumes[k].source = "EmptyDir"
          /\ pod.volumes[k] = pod0.volumes[k]
    /\ \E i, j \in DOMAIN pod0.containers :
          /\ \E m \in DOMAIN pod0.containers[i].volumeMounts :
                /\ pod0.containers[i].volumeMounts[m].name = "dfdaemon-unix-sock"
                /\ pod.containers[i].volumeMounts[m].mountPath = "/run/df.sock"
          /\ Named(pod0.containers[j].volumeMounts, "dfdaemon-unix-sock") = {}
          /\ Named(pod.containers[j].volumeMounts, "dfdaemon-unix-sock") # {}

-----------------------------------------------------------------------------
(* Properties of what a load makes of the file *)

\* c has of every key the document f sets the value f gives it, and the
\* zero value of every other field.
FileValuesOrZero(c, f) ==
    /\ c.Enable = (IF "enable" \in DOMAIN f.keys THEN f.keys.enable ELSE FALSE)
    /\ c.ProxyPort = (IF "proxy_port" \in DOMAIN f.keys THEN f.keys.proxy_port ELSE 0)
    /\ c.CliToolsImage =
          (IF "cli_tools_image" \in DOMAIN f.keys THEN f.keys.cli_tools_image ELSE "")
    /\ Str(c.CliToolsDirPath) =
          (IF "cli_tools_dir_path" \in DOMAIN f.keys THEN Str(f.keys.cli_tools_dir_path)
                                                     ELSE "")

\* C22: defaults are all or nothing.  What a load made of a file that reads
\* and parses has the file's value for every key the file sets and the zero
\* value (false, 0, "", "") for every key it lacks, none of them from the
\* compiled-in defaults; what it made of a file it could not read or parse
\* is the compiled-in defaults in all four fields.  This holds of the result
\* of every reload's load and of the configuration the manager holds.
C22_AllOrNothing ==
    /\ IF loadedFrom.state = "ok"
       THEN FileValuesOrZero(loaded, loadedFrom)
       ELSE IsCompiledInDefault(loaded)
    /\ IF cmFrom.state = "ok"
       THEN FileValuesOrZero(cmConfig, cmFrom)
       ELSE IsCompiledInDefault(cmConfig)

\* A reload has loaded a document that sets proxy_port alone: the port is
\* the file's and the other three fields are zero.
C22_Witness ==
    /\ rpc = "loaded"
    /\ DOMAIN loadedFrom.keys = {"proxy_port"}
    /\ loaded.ProxyPort = 1234 /\ loaded.Enable = FALSE
    /\ loaded.CliToolsImage = "" /\ loaded.CliToolsDirPath = <<>>

-----------------------------------------------------------------------------
(* Properties of the tools mount path *)

\* The normalized form of each tools directory: what the path denotes,
\* written with single separators, without "." and resolved "..", without
\* trailing separator, "." for the empty path.
NormalizedDir(d) ==
    CASE d = "/dragonfly-tools" -> "/dragonfly-tools"
      [] d = "/t/" -> "/t"
      [] d = "/opt//tools/" -> "/opt/tools"
      [] d = "/a/./b/../c" -> "/a/c"
      [] d = "tools/" -> "tools"
      [] d = "/" -> "/"
      [] d = "" -> "."

\* C23: the tools mount path is the normalized CliToolsDirPath followed by
\* "-mount".  The init container the tools injector appended mounts the
\* tools volume at that path and has the command cp -rf <CliToolsDirPath>/.
\* <mount path>/ with the directory as configured; every tools mount the
\* injector appended to a container has that path, and every
\* DRAGONFLY_TOOLS_PATH it appended has it as value.
C23_ToolsMountPath ==
    LET dir == Str(config.CliToolsDirPath)
        mp == NormalizedDir(dir) \o "-mount"
    IN  /\ \A k \in DOMAIN pod.initContainers :
              (pod.initContainers[k].name = "d7y-cli-tools"
               /\ Named(pod0.initContainers, "d7y-cli-tools") = {})
              => /\ pod.initContainers[k].volumeMounts =
                      <<[name |-> "d7y-cli-tools-volume", mountPath |-> mp]>>
                 /\ pod.initContainers[k].command = <<"cp", "-rf", dir \o "/.", mp \o "/">>
        /\ \A i \in DOMAIN pod.containers :
              /\ \A j \in DOMAIN pod.containers[i].volumeMounts :
                    (pod.containers[i].volumeMounts[j].name = "d7y-cli-tools-volume"
                     /\ Named(pod0.containers[i].volumeMounts, "d7y-cli-tools-volume") = {})
                    => pod.containers[i].volumeMounts[j].mountPath = mp
              /\ \A j \in DOMAIN pod.containers[i].env :
                    (pod.containers[i].env[j].name = "DRAGONFLY_TOOLS_PATH"
                     /\ Named(pod0.containers[i].env, "DRAGONFLY_TOOLS_PATH") = {})
                    => pod.containers[i].env[j].value = mp

\* The tools injector has run with the tools directory /opt//tools/ on a pod
\* without init containers and has given a container the mount and the
\* variable with /opt/tools-mount.
C23_Witness ==
    /\ last = "cli-tools"
    /\ Str(config.CliToolsDirPath) = "/opt//tools/"
    /\ pod0.initContainers = <<>> /\ Len(pod.initContainers) = 1
    /\ pod.initContainers[1].command = <<"cp", "-rf", "/opt//tools//.", "/opt/tools-mount/">>
    /\ \E i \in DOMAIN pod.containers :
          /\ pod0.containers[i].env = <<>> /\ pod0.containers[i].volumeMounts = <<>>
          /\ pod.containers[i].env =
                <<[name |-> "DRAGONFLY_TOOLS_PATH", value |-> "/opt/tools-mount",
                   fieldPath |-> ""]>>
          /\ pod.containers[i].volumeMounts =
                <<[name |-> "d7y-cli-tools-volume", mountPath |-> "/opt/tools-mount"]>>

-----------------------------------------------------------------------------
(* Properties of the write lock *)

\* C24: the write lock is held for the swap alone.  The step in which a
\* reload reads and parses the file begins and ends with the write lock
\* free, and the lock is held only between the return of Lock and the
\* assignment; so while a reload has the file loaded and has not asked for
\* the lock, a caller of GetConfig can take the read lock.
C24_LockOnlyForSwap ==
    /\ [][(loaded' # loaded \/ loadedFrom' # loadedFrom \/ (rpc = "select" /\ rpc' # rpc))
             => (~mu.writer /\ ~mu'.writer)]_vars
    /\ [](mu.writer <=> rpc = "locked")
    /\ []((rpc \in {"select", "loaded"} /\ gpc = "idle") => ENABLED GetConfig_RLock)

\* A caller of GetConfig has taken the read lock and made its copy while a
\* reload has a different configuration loaded from the file and has not
\* yet asked for the lock.
C24_Witness ==
    /\ rpc = "loaded" /\ gpc = "copied"
    /\ mu.readers = 1 /\ ~mu.writer
    /\ loaded # cmConfig /\ loadedFrom # cmFrom

\* The pod a call of Default running alone makes of p, with the Namespace
\* lookup n and the configuration snapshot c.
Alone(p, n, c) == IF injectRequired(p, n) THEN DefaultResult(p, c) ELSE p

\* C25: concurrent calls on different Pod objects do not interfere.  With
\* two calls of Default and reloads interleaved in any way, the pod each call
\* has produced when it returns is the pod a call running alone produces for
\* the same input pod, Namespace lookup and configuration snapshot.
C25_NoInterference ==
    /\ (Len(returned) >= 1) => returned[1].pod = Alone(pod0, ns, returned[1].config)
    /\ (other.pc = "returned") => other.pod = Alone(other.pod0, other.ns, other.config)

\* Both calls are in the middle of their injector loops at the same moment,
\* on different pods and with different configuration snapshots.
C25_Witness ==
    /\ pc = "inject" /\ idx = 2
    /\ other.pc = "inject" /\ other.idx = 2
    /\ other.config # config
    /\ other.pod0 # pod0

\* The entries of list t under name n that list s has none of.
Added(s, t, n) == IF Named(s, n) = {} THEN {t[i] : i \in Named(t, n)} ELSE {}

\* C26: one snapshot per call.  The configuration of a call is assigned in
\* one step only, the one before eligibility is evaluated, and it is what
\* the manager holds at that step; and during and after the first call,
\* whatever reloads have swapped the stored configuration meanwhile, every
\* DRAGONFLY_PROXY_PORT, DRAGONFLY_TOOLS_PATH, tools mount and init container
\* that the pod did not come with has the port, the mount path and the image
\* of that one configuration.
C26_OneSnapshot ==
    /\ [][config' # config =>
            (pc = "getConfig" /\ pc' = "injectRequired" /\ config' = cmConfig)]_vars
    /\ []((kind = "Pod" /\ calls = 1) =>
            /\ \A i \in DOMAIN pod.containers :
                  LET b == pod0.containers[i]
                      a == pod.containers[i]
                  IN  /\ \A v \in Added(b.env, a.env, "DRAGONFLY_PROXY_PORT") :
                            v.value = Itoa(config.ProxyPort)
                      /\ \A v \in Added(b.env, a.env, "DRAGONFLY_TOOLS_PATH") :
                            v.value = ToolsMountPath(config)
                      /\ \A m \in Added(b.volumeMounts, a.volumeMounts, "d7y-cli-tools-volume") :
                            m.mountPath = ToolsMountPath(config)
            /\ \A t \in Added(pod0.initContainers, pod.initContainers, "d7y-cli-tools") :
                  /\ t.image = IF HasKey(pod0.annotations, "dragonfly.io/cli-tools-image")
                               THEN pod0.annotations.m["dragonfly.io/cli-tools-image"]
                               ELSE config.CliToolsImage
                  /\ \A m \in Range(t.volumeMounts) : m.mountPath = ToolsMountPath(config))

\* The first call has run the proxy and socket injectors and has the tools
\* injector still to run, and a reload has swapped the stored configuration
\* for a different one since the call took its snapshot: the port that went
\* into a container is the snapshot's.
C26_Witness ==
    /\ kind = "Pod" /\ calls = 1
    /\ pc = "inject" /\ idx = 3
    /\ cmConfig # config
    /\ cmConfig.ProxyPort # config.ProxyPort
    /\ \E i \in DOMAIN pod.containers :
          Added(pod0.containers[i].env, pod.containers[i].env, "DRAGONFLY_PROXY_PORT")
             = { [name |-> "DRAGONFLY_PROXY_PORT", value |-> Itoa(config.ProxyPort),
                  fieldPath |-> ""] }

\* C27: a failing reload does not keep the last good configuration.  The
\* step of a reload that stores, taken when the manager holds what it loaded
\* from a file that read and parsed and the reload found the file missing,
\* unreadable or unparsable, leaves the manager with the compiled-in defaults
\* in all four fields; and a GetConfig that copies after such a reload has
\* the compiled-in defaults as its result.
C27_NoLastGood ==
    /\ [][(rpc = "locked" /\ rpc' = "select"
              /\ cmFrom.state = "ok" /\ loadedFrom.state # "ok")
            => (/\ cmConfig' = [Enable |-> TRUE, ProxyPort |-> 4001,
                                CliToolsImage |-> "dragonflyoss/cli-tools:latest",
                                CliToolsDirPath |-> <<"/", "d", "r", "a", "g", "o", "n",
                                                      "f", "l", "y", "-", "t", "o", "o",
                                                      "l", "s">>]
                /\ cmFrom' = loadedFrom)]_vars
    /\ []((gpc = "copied" /\ cmFrom.state # "ok") =>
            (IsCompiledInDefault(got[1]) /\ got[1].ProxyPort # 8001 /\ got[1].ProxyPort # 1234))

\* An earlier GetConfig gave the port 8001 of a file that had loaded; the
\* file has become unparsable and a reload has stored since, the manager
\* holds the compiled-in defaults, and the next GetConfig has the read lock.
C27_Witness ==
    /\ got # <<>> /\ got[1].ProxyPort = 8001
    /\ cmFrom.state = "malformed"
    /\ IsCompiledInDefault(cmConfig)
    /\ gpc = "rlocked" /\ rpc = "select"

\* C28: the order of definition of the env vars.  In a container that came
\* without DRAGONFLY_INJECT_PROXY and has it after the proxy injector, the
\* env list has an entry named NODE_NAME and an entry named
\* DRAGONFLY_PROXY_PORT, each at a position before that of
\* DRAGONFLY_INJECT_PROXY, whether the container came with them or got them
\* in the same run.
C28_DefinedBeforeUse ==
    \A i \in DOMAIN pod.containers :
        LET b == pod0.containers[i].env
            a == pod.containers[i].env
        IN  Named(b, "DRAGONFLY_INJECT_PROXY") = {} =>
                \A k \in Named(a, "DRAGONFLY_INJECT_PROXY") :
                    /\ \E j \in Named(a, "NODE_NAME") : j < k
                    /\ \E j \in Named(a, "DRAGONFLY_PROXY_PORT") : j < k

\* The proxy injector has run on a pod with a container without env vars,
\* which now has exactly the three, the proxy URL last, and on a container
\* that came with a NODE_NAME of its own and got the port and the proxy URL
\* after it, in that order.
C28_Witness ==
    /\ last = "proxy-env"
    /\ \E i \in DOMAIN pod.containers :
          /\ pod0.containers[i].env = <<>>
          /\ Names(pod.containers[i].env) =
                <<"NODE_NAME", "DRAGONFLY_PROXY_PORT", "DRAGONFLY_INJECT_PROXY">>
    /\ \E i \in DOMAIN pod.containers :
          /\ Names(pod0.containers[i].env) = <<"NODE_NAME", "FOO">>
          /\ Names(pod.containers[i].env) =
                <<"NODE_NAME", "FOO", "DRAGONFLY_PROXY_PORT", "DRAGONFLY_INJECT_PROXY">>

\* C29: what the mutators leave alone.  At every step of Default the pod has
\* the name, namespace, labels and annotations it came with; it has the
\* containers it came with, each with its name, image, pull policy and
\* command, and only longer env and mount lists; the init containers it came
\* with are at the head of the list exactly as they were; an init container
\* that was appended has no env var at all and the tools mount as its only
\* mount; and no step changes what the Namespace lookup returned.
C29_Frame ==
    /\ [][ns' = ns /\ kind' = kind /\ pod0' = pod0]_vars
    /\ [](/\ pod.name = pod0.name /\ pod.namespace = pod0.namespace
          /\ pod.labels = pod0.labels /\ pod.annotations = pod0.annotations
          /\ Len(pod.containers) = Len(pod0.containers)
          /\ \A i \in DOMAIN pod0.containers :
                LET b == pod0.containers[i]
                    a == pod.containers[i]
                IN  /\ a.name = b.name /\ a.image = b.image
                    /\ a.imagePullPolicy = b.imagePullPolicy
                    /\ a.command = b.command
                    /\ IsPrefix(b.env, a.env)
                    /\ IsPrefix(b.volumeMounts, a.volumeMounts)
          /\ IsPrefix(pod0.initContainers, pod.initContainers)
          /\ IsPrefix(pod0.volumes, pod.volumes)
          /\ \A i \in DOMAIN pod.initContainers :
                i > Len(pod0.initContainers) =>
                    /\ pod.initContainers[i].env = <<>>
                    /\ Names(pod.initContainers[i].volumeMounts) = <<"d7y-cli-tools-volume">>)

\* Default has returned for an eligible pod that came with an init container
\* and a container: the container has the injected env vars, the init
\* container d7y-cli-tools stands after the pod's own, which is as it was.
C29_Witness ==
    /\ kind = "Pod" /\ Eligible /\ Returned
    /\ Len(pod0.initContainers) = 1
    /\ Len(pod.initContainers) = 2
    /\ pod.initContainers[1] = pod0.initContainers[1]
    /\ pod.initContainers[1].env = <<>>
    /\ pod.initContainers[2].name = "d7y-cli-tools"
    /\ Len(pod0.containers) >= 1
    /\ Len(pod.containers[1].env) > Len(pod0.containers[1].env)

\* C30: a mutated pod stays as it is under a changed configuration.  Once
\* Default has returned for an eligible pod, the pod is at every later
\* moment, during and after further calls with whatever configuration a
\* reload has brought, the pod of that first return: nothing is added and
\* the port, tools path, tools mount and init container image that call put
\* in are those of its configuration, not of a later one.
C30_NoOpAfterReload ==
    (kind = "Pod" /\ Eligible /\ Len(returned) >= 1) =>
        /\ pod = returned[1].pod
        /\ \A j \in DOMAIN returned : returned[j].pod = returned[1].pod
        /\ LET c == returned[1].config
           IN  /\ \A i \in DOMAIN pod.containers :
                     LET b == pod0.containers[i]
                         a == pod.containers[i]
                     IN  /\ Added(b.env, a.env, "DRAGONFLY_PROXY_PORT") \subseteq
                               { EnvVar("DRAGONFLY_PROXY_PORT", Itoa(c.ProxyPort)) }
                         /\ Added(b.env, a.env, "DRAGONFLY_TOOLS_PATH") \subseteq
                               { EnvVar("DRAGONFLY_TOOLS_PATH", ToolsMountPath(c)) }
                         /\ Added(b.volumeMounts, a.volumeMounts, "d7y-cli-tools-volume")
                               \subseteq
                               { VolumeMount("d7y-cli-tools-volume", ToolsMountPath(c)) }
               /\ \A t \in Added(pod0.initContainers, pod.initContainers, "d7y-cli-tools") :
                     t.image \in {c.CliToolsImage, "custom/image:tag"}

\* Two calls have returned for an eligible pod with a container that came
\* without the port: the first ran with one configuration and put its port
\* in, the second ran with a configuration of another port, tools image and
\* tools directory.
C30_Witness ==
    /\ kind = "Pod" /\ Eligible /\ Len(returned) = 2
    /\ returned[1].config.ProxyPort # returned[2].config.ProxyPort
    /\ returned[1].config.CliToolsImage # returned[2].config.CliToolsImage
    /\ returned[1].config.CliToolsDirPath # returned[2].config.CliToolsDirPath
    /\ Len(pod0.containers) > 0
    /\ Added(pod0.containers[1].env, pod.containers[1].env, "DRAGONFLY_PROXY_PORT")
          = { EnvVar("DRAGONFLY_PROXY_PORT", Itoa(returned[1].config.ProxyPort)) }

====
